---- MODULE Spec2Model ----
(***************************************************************************)
(* Model of PrairieConnectivityQGIS                                        *)
(* (scripts/connectivity_analysis/prairie_connectivity_analysis.py).       *)
(*                                                                         *)
(* Units: areas are integers in tenths of a hectare, planar centroid       *)
(* coordinates are integers in metres, max_distance_km is in kilometres.   *)
(* A feature of a layer carries the values lines 72-101 compute for it:    *)
(* whether its geometry is empty, its area_ha and its planar centroid.     *)
(* Ratios (density, centralities, means) are exact fractions <<num, den>>  *)
(* in lowest terms with den > 0.                                           *)
(***************************************************************************)
EXTENDS Integers, Sequences, FiniteSets, TLC

\* ---- program constants (module level defaults, lines 27-29) ----
DEFAULT_MAX_DISTANCE_KM == 2
\* 0.5 ha, in tenths of a hectare
DEFAULT_MIN_PRIMARY_SIZE_HA == 5
\* 0.1 ha, in tenths of a hectare
DEFAULT_MIN_SECONDARY_SIZE_HA == 1
\* line 135: max_distance_km * 1000
METERS_PER_KM == 1000

\* ---- bounds of the explored inputs ----
\* features per layer, for a call on a newly constructed analyzer
MaxFeatures == 3
\* features per layer, for repeated calls on one analyzer
MaxRunFeatures == 2
\* largest centroid coordinate, in km
MaxCoord == 2
\* calls of analyze_layer_connectivity on one analyzer instance
MaxRuns == 2
\* calls of create_qgis_layers on one analyzer instance
MaxCreates == 1

\* ---- exact fractions ----
RECURSIVE GCD(_, _)
GCD(a, b) == IF b = 0 THEN a ELSE GCD(b, a % b)

Abs(a) == IF a < 0 THEN -a ELSE a

\* n / d in lowest terms, d > 0
Frac(n, d) == LET g == GCD(Abs(n), d) IN <<n \div g, d \div g>>

FracAdd(p, q) == Frac(p[1] * q[2] + q[1] * p[2], p[2] * q[2])

FracLeq(p, q) == p[1] * q[2] <= q[1] * p[2]

FracLess(p, q) == p[1] * q[2] < q[1] * p[2]

FracSub(p, q) == Frac(p[1] * q[2] - q[1] * p[2], p[2] * q[2])

FracMul(p, q) == Frac(p[1] * q[1], p[2] * q[2])

Zero == <<0, 1>>

One == <<1, 1>>

\* ---- sets and sequences ----
RECURSIVE SetToSeq(_)
\* the elements of a finite set of integers, ascending
SetToSeq(S) ==
    IF S = {} THEN << >>
    ELSE LET m == CHOOSE x \in S : \A y \in S : x <= y
         IN <<m>> \o SetToSeq(S \ {m})

RECURSIVE SumSeq(_)
SumSeq(s) == IF s = << >> THEN 0 ELSE Head(s) + SumSeq(Tail(s))

RECURSIVE MaxSeq(_)
MaxSeq(s) ==
    IF Len(s) = 1 THEN s[1]
    ELSE LET m == MaxSeq(Tail(s)) IN IF s[1] >= m THEN s[1] ELSE m

Range(s) == {s[k] : k \in 1..Len(s)}

SeqsUpTo(S, n) == UNION {[1..k -> S] : k \in 0..n}

\* ---- inputs ----
\* None / NULL area (line 80-81) is 0
Areas == {0, DEFAULT_MIN_SECONDARY_SIZE_HA, DEFAULT_MIN_PRIMARY_SIZE_HA}

\* centroids: on the x axis up to MaxCoord km, on the y axis below MaxCoord km
Points ==
    {<<x * METERS_PER_KM, 0>> : x \in 0..MaxCoord} \cup
    {<<0, y * METERS_PER_KM>> : y \in 1..(MaxCoord - 1)}

EmptyFeature == [empty |-> TRUE, area |-> 0, x |-> 0, y |-> 0]

Features ==
    {EmptyFeature} \cup
    {[empty |-> FALSE, area |-> a, x |-> p[1], y |-> p[2]] :
        a \in Areas, p \in Points}

CRSs == {"EPSG:4326", "EPSG:26915"}

InvalidLayer == [valid |-> FALSE, crs |-> "EPSG:4326", features |-> << >>]

\* the layers of at most n features in one of the given CRSs
Layers(n, crss) ==
    {InvalidLayer} \cup
    {[valid |-> TRUE, crs |-> c, features |-> f] :
        c \in crss, f \in SeqsUpTo(Features, n)}

Sizes == {0, DEFAULT_MIN_SECONDARY_SIZE_HA, DEFAULT_MIN_PRIMARY_SIZE_HA}

Params ==
    [max_distance_km : 0..DEFAULT_MAX_DISTANCE_KM,
     min_primary_size_ha : Sizes,
     min_secondary_size_ha : Sizes]

\* the keyword defaults of lines 42-44, with any min_secondary_size_ha
DefaultParams ==
    [max_distance_km : {DEFAULT_MAX_DISTANCE_KM},
     min_primary_size_ha : {DEFAULT_MIN_PRIMARY_SIZE_HA},
     min_secondary_size_ha : Sizes]

\* ---- analyze_layer_connectivity: extraction (lines 69-111) ----
\* features_data without the skip of empty geometries (lines 74-75)
features_data_KeepEmpty(layer) ==
    LET f == layer.features
    IN [j \in 1..Len(f) |->
           [patch_id |-> j - 1,
            area_ha |-> f[j].area,
            centroid_x |-> f[j].x,
            centroid_y |-> f[j].y]]

\* one row per feature with non-empty geometry; patch_id is the feature's
\* position i of enumerate(layer.getFeatures()), empty ones included
features_data(layer) ==
    LET f == layer.features
        kept == SelectSeq([k \in 1..Len(f) |-> k], LAMBDA k : ~f[k].empty)
    IN [j \in 1..Len(kept) |->
           [patch_id |-> kept[j] - 1,
            area_ha |-> f[kept[j]].area,
            centroid_x |-> f[kept[j]].x,
            centroid_y |-> f[kept[j]].y]]

\* ---- classification (lines 119-121) ----
\* node_type with strict comparisons
node_type_Strict(area_ha, min_primary_size_ha, min_secondary_size_ha) ==
    LET t0 == "too_small"
        t1 == IF area_ha > min_secondary_size_ha THEN "secondary" ELSE t0
        t2 == IF area_ha > min_primary_size_ha THEN "primary" ELSE t1
    IN t2

node_type(area_ha, min_primary_size_ha, min_secondary_size_ha) ==
    LET t0 == "too_small"
        t1 == IF area_ha >= min_secondary_size_ha THEN "secondary" ELSE t0
        t2 == IF area_ha >= min_primary_size_ha THEN "primary" ELSE t1
    IN t2

Classify(rows, min_primary_size_ha, min_secondary_size_ha) ==
    [k \in 1..Len(rows) |->
        [patch_id |-> rows[k].patch_id,
         area_ha |-> rows[k].area_ha,
         centroid_x |-> rows[k].centroid_x,
         centroid_y |-> rows[k].centroid_y,
         node_type |-> node_type(rows[k].area_ha, min_primary_size_ha,
                                 min_secondary_size_ha)]]

\* ---- filter (line 125) ----
\* the filter with a strict comparison
FilterPatches_Strict(rows, min_secondary_size_ha) ==
    SelectSeq(rows, LAMBDA r : r.area_ha > min_secondary_size_ha)

FilterPatches(rows, min_secondary_size_ha) ==
    SelectSeq(rows, LAMBDA r : r.area_ha >= min_secondary_size_ha)

\* ---- _build_network (lines 139-184) ----
\* square of cdist's Euclidean distance (line 149)
Dist2(r1, r2) ==
    (r1.centroid_x - r2.centroid_x) * (r1.centroid_x - r2.centroid_x)
    + (r1.centroid_y - r2.centroid_y) * (r1.centroid_y - r2.centroid_y)

\* line 172 without the test distance > 0
Connects_NoZeroTest(d2, max_distance_m) ==
    /\ max_distance_m >= 0
    /\ d2 <= max_distance_m * max_distance_m

\* line 172: distance <= max_distance_m and distance > 0
Connects(d2, max_distance_m) ==
    /\ max_distance_m >= 0
    /\ d2 <= max_distance_m * max_distance_m
    /\ d2 > 0

\* an nx.Graph: nodes with their attributes, edges as 2-element sets
build_network(rows, max_distance_m) ==
    [nodes |-> [id \in {rows[k].patch_id : k \in 1..Len(rows)} |->
                   LET r == CHOOSE q \in Range(rows) : q.patch_id = id
                   IN [area_ha |-> r.area_ha, node_type |-> r.node_type]],
     edges |-> {{rows[i].patch_id, rows[j].patch_id} :
                   <<i, j>> \in {ij \in (1..Len(rows)) \X (1..Len(rows)) :
                       /\ ij[1] < ij[2]
                       /\ Connects(Dist2(rows[ij[1]], rows[ij[2]]),
                                   max_distance_m)}}]

\* ---- networkx functions used by _calculate_metrics ----
NodesOf(G) == DOMAIN G.nodes

Neighbors(G, v) == {u \in NodesOf(G) : u /= v /\ {u, v} \in G.edges}

\* G.degree(v)
\* the degree counting only the edges to later nodes
Degree_LaterOnly(G, v) ==
    Cardinality({e \in G.edges : v \in e /\ \A w \in e : v <= w})

Degree(G, v) == Cardinality({e \in G.edges : v \in e})

\* the density of a directed graph: m / (n(n-1))
density_Directed(G) ==
    LET n == Cardinality(NodesOf(G))
        m == Cardinality(G.edges)
    IN IF m = 0 \/ n <= 1 THEN Zero ELSE Frac(m, n * (n - 1))

\* nx.density: 0 when there is no edge or at most one node, else 2m / (n(n-1))
density(G) ==
    LET n == Cardinality(NodesOf(G))
        m == Cardinality(G.edges)
    IN IF m = 0 \/ n <= 1 THEN Zero ELSE Frac(2 * m, n * (n - 1))

\* a search that stops after the frontier's neighbours
plain_bfs_OneLevel(G, seen, frontier) ==
    seen \cup UNION {Neighbors(G, v) : v \in frontier}

RECURSIVE plain_bfs(_, _, _)
\* the nodes reachable from the frontier, given the nodes already seen
plain_bfs(G, seen, frontier) ==
    IF frontier = {} THEN seen
    ELSE LET next == UNION {Neighbors(G, v) : v \in frontier} \ seen
         IN plain_bfs(G, seen \cup next, next)

RECURSIVE ComponentsFrom(_, _, _)
\* nx.connected_components: for each node not yet seen, in node order, the
\* set its breadth-first search reaches
ComponentsFrom(G, order, seen) ==
    IF order = << >> THEN << >>
    ELSE IF Head(order) \in seen THEN ComponentsFrom(G, Tail(order), seen)
    ELSE LET c == plain_bfs(G, {Head(order)}, {Head(order)})
         IN <<c>> \o ComponentsFrom(G, Tail(order), seen \cup c)

connected_components(G) == ComponentsFrom(G, SetToSeq(NodesOf(G)), {})

\* nx.degree_centrality: 1 for every node of a graph with at most one node,
\* else degree / (n - 1)
degree_centrality(G) ==
    LET n == Cardinality(NodesOf(G))
    IN IF n <= 1 THEN [v \in NodesOf(G) |-> One]
       ELSE [v \in NodesOf(G) |-> Frac(Degree(G, v), n - 1)]

RECURSIVE HopsFrom(_, _, _, _, _)
\* length of a shortest path from the frontier to t, -1 if there is none
HopsFrom(G, seen, frontier, t, d) ==
    IF t \in frontier THEN d
    ELSE IF frontier = {} THEN -1
    ELSE LET next == UNION {Neighbors(G, v) : v \in frontier} \ seen
         IN HopsFrom(G, seen \cup next, next, t, d + 1)

Hops(G, s, t) == HopsFrom(G, {s}, {s}, t, 0)

RECURSIVE SumOver(_, _)
SumOver(S, f) ==
    IF S = {} THEN 0
    ELSE LET x == CHOOSE y \in S : TRUE IN f[x] + SumOver(S \ {x}, f)

RECURSIVE Sigma(_, _, _)
\* number of shortest paths from s to t
Sigma(G, s, t) ==
    IF s = t THEN 1
    ELSE LET d == Hops(G, s, t)
             pred == {u \in Neighbors(G, t) : Hops(G, s, u) = d - 1}
         IN IF d < 0 THEN 0
            ELSE SumOver(pred, [u \in pred |-> Sigma(G, s, u)])

\* the share of the shortest s-t paths that pass through v
PairDependency(G, s, t, v) ==
    IF /\ Hops(G, s, t) >= 0
       /\ Hops(G, s, v) >= 0
       /\ Hops(G, v, t) >= 0
       /\ Hops(G, s, v) + Hops(G, v, t) = Hops(G, s, t)
    THEN Frac(Sigma(G, s, v) * Sigma(G, v, t), Sigma(G, s, t))
    ELSE Zero

RECURSIVE FracSum(_, _)
FracSum(S, f) ==
    IF S = {} THEN Zero
    ELSE LET x == CHOOSE y \in S : TRUE
         IN FracAdd(f[x], FracSum(S \ {x}, f))

\* nx.betweenness_centrality (normalized, unweighted, no endpoints): a node's
\* share of the shortest paths between the other nodes. The accumulation
\* runs from every source, so each unordered pair counts twice; _rescale
\* multiplies by 1 / ((n-1)(n-2)) when n > 2
betweenness_centrality(G) ==
    LET n == Cardinality(NodesOf(G))
        raw(v) ==
            LET pairs == {st \in NodesOf(G) \X NodesOf(G) :
                             st[1] /= st[2] /\ st[1] /= v /\ st[2] /= v}
            IN FracSum(pairs,
                   [st \in pairs |-> PairDependency(G, st[1], st[2], v)])
    IN [v \in NodesOf(G) |->
           IF n <= 2 THEN raw(v)
           ELSE Frac(raw(v)[1], raw(v)[2] * (n - 1) * (n - 2))]

\* ---- _calculate_metrics (lines 186-228) ----
\* the patch table with the three per-patch columns of lines 214-219
AnnotatePatches(G, rows) ==
    LET dc == degree_centrality(G)
        bc == betweenness_centrality(G)
    IN [k \in 1..Len(rows) |->
           [patch_id |-> rows[k].patch_id,
            area_ha |-> rows[k].area_ha,
            centroid_x |-> rows[k].centroid_x,
            centroid_y |-> rows[k].centroid_y,
            node_type |-> rows[k].node_type,
            degree_centrality |->
                IF rows[k].patch_id \in DOMAIN dc
                THEN dc[rows[k].patch_id] ELSE Zero,
            betweenness_centrality |->
                IF rows[k].patch_id \in DOMAIN bc
                THEN bc[rows[k].patch_id] ELSE Zero,
            num_connections |-> Degree(G, rows[k].patch_id)]]

\* the metrics returned, and the patch table as the call leaves it
calculate_metrics(G, rows) ==
    LET components == connected_components(G)
        sizes == [k \in 1..Len(components) |-> Cardinality(components[k])]
        annotated == AnnotatePatches(G, rows)
        conns == [k \in 1..Len(annotated) |-> annotated[k].num_connections]
    IN [patches |-> annotated, metrics |->
       [total_patches |-> Cardinality(NodesOf(G)),
        total_connections |-> Cardinality(G.edges),
        network_density |-> density(G),
        primary_nodes |->
            Cardinality({v \in NodesOf(G) : G.nodes[v].node_type = "primary"}),
        secondary_nodes |->
            Cardinality({v \in NodesOf(G) : G.nodes[v].node_type = "secondary"}),
        num_components |-> Len(components),
        largest_component_size |->
            IF components /= << >> THEN MaxSeq(sizes) ELSE 0,
        isolated_patches |->
            Cardinality({k \in 1..Len(components) : sizes[k] = 1}),
        avg_connections_per_patch |-> Frac(SumSeq(conns), Len(conns)),
        max_connections |-> MaxSeq(conns),
        total_area_ha |->
            SumSeq([k \in 1..Len(rows) |-> rows[k].area_ha])]]

\* ---- create_qgis_layers (lines 230-429) ----
\* the quantile levels of lines 283-284 and 374-377, as fractions
HUB_CENTRALITY_QUANTILE == <<8, 10>>

HUB_AREA_QUANTILE == <<6, 10>>

ISOLATED_AREA_QUANTILE == <<7, 10>>

RECURSIVE InsertSorted(_, _)
InsertSorted(x, s) ==
    IF s = << >> THEN <<x>>
    ELSE IF FracLeq(x, Head(s)) THEN <<x>> \o s
    ELSE <<Head(s)>> \o InsertSorted(x, Tail(s))

RECURSIVE sort_values(_)
\* a column's values in ascending order
sort_values(s) ==
    IF s = << >> THEN << >> ELSE InsertSorted(Head(s), sort_values(Tail(s)))

\* pandas Series.quantile(q), default interpolation 'linear': the value at
\* position q * (n - 1) of the sorted column, interpolated between neighbours
quantile_Lower(column, q) ==
    LET s == sort_values(column)
        lo == (q[1] * (Len(s) - 1)) \div q[2]
    IN s[lo + 1]

quantile(column, q) ==
    LET s == sort_values(column)
        pos == q[1] * (Len(s) - 1)
        lo == pos \div q[2]
        rest == pos % q[2]
        hi == IF rest = 0 THEN lo ELSE lo + 1
    IN FracAdd(s[lo + 1],
               FracMul(FracSub(s[hi + 1], s[lo + 1]), Frac(rest, q[2])))

\* the columns of the patch table the quantiles are taken over
degree_centrality_column(rows) ==
    [k \in 1..Len(rows) |-> rows[k].degree_centrality]

area_ha_column(rows) == [k \in 1..Len(rows) |-> <<rows[k].area_ha, 1>>]

\* lines 283-284 and 374-375
is_hub_NotStrict(row, rows) ==
    /\ FracLeq(quantile(degree_centrality_column(rows),
                        HUB_CENTRALITY_QUANTILE), row.degree_centrality)
    /\ FracLeq(quantile(area_ha_column(rows), HUB_AREA_QUANTILE),
               <<row.area_ha, 1>>)

is_hub(row, rows) ==
    /\ FracLess(quantile(degree_centrality_column(rows),
                         HUB_CENTRALITY_QUANTILE), row.degree_centrality)
    /\ FracLess(quantile(area_ha_column(rows), HUB_AREA_QUANTILE),
                <<row.area_ha, 1>>)

\* line 285
is_isolated(row) == row.num_connections = 0

\* lines 376-377
is_large_isolated(row, rows) ==
    /\ row.num_connections = 0
    /\ FracLess(quantile(area_ha_column(rows), ISOLATED_AREA_QUANTILE),
                <<row.area_ha, 1>>)

\* lines 373-378: the rows of the table either rule selects, in table order
priority_patches_HubsOnly(rows) ==
    SelectSeq(rows, LAMBDA row : is_hub(row, rows))

priority_patches(rows) ==
    SelectSeq(rows, LAMBDA row :
        is_hub(row, rows) \/ is_large_isolated(row, rows))

\* lines 405-408
priority_type_AlwaysHub(row) == "Hub"

priority_type(row) ==
    IF row.num_connections = 0 THEN "Large Isolated" ELSE "Hub"

\* _create_patches_layer (lines 255-309): one feature per row of the table
create_patches_layer(rows) ==
    [name |-> "Patches",
     features |->
         [k \in 1..Len(rows) |->
             [patch_id |-> rows[k].patch_id,
              area_ha |-> rows[k].area_ha,
              node_type |-> rows[k].node_type,
              num_connections |-> rows[k].num_connections,
              degree_centrality |-> rows[k].degree_centrality,
              betweenness_centrality |-> rows[k].betweenness_centrality,
              is_hub |-> is_hub(rows[k], rows),
              is_isolated |-> is_isolated(rows[k])]]]

RECURSIVE EdgesToSeq(_)
\* the edges of a graph, each as <<lower id, higher id>>, in ascending order
EdgesToSeq(E) ==
    IF E = {} THEN << >>
    ELSE LET first(e) == CHOOSE v \in e : \A w \in e : v <= w
             second(e) == CHOOSE v \in e : \A w \in e : w <= v
             m == CHOOSE e \in E : \A f \in E :
                      \/ first(e) < first(f)
                      \/ first(e) = first(f) /\ second(e) <= second(f)
         IN <<(<<first(m), second(m)>>)>> \o EdgesToSeq(E \ {m})

\* lines 335-336: .iloc[0] finds a row for both ends of every edge
CentroidsFound(G, rows) ==
    \A e \in G.edges : e \subseteq {rows[k].patch_id : k \in 1..Len(rows)}

\* _create_connections_layer (lines 311-367): one feature per edge
create_connections_layer(G) ==
    LET edges == EdgesToSeq(G.edges)
    IN [name |-> "Connections",
        features |->
            [k \in 1..Len(edges) |->
                [patch_1 |-> edges[k][1],
                 patch_2 |-> edges[k][2],
                 connection_type |->
                     <<G.nodes[edges[k][1]].node_type,
                       G.nodes[edges[k][2]].node_type>>]]]

\* _create_priority_patches_layer (lines 384-429), for a non-empty selection
create_priority_patches_layer(priority) ==
    [name |-> "Priority_Patches",
     features |->
         [k \in 1..Len(priority) |->
             [patch_id |-> priority[k].patch_id,
              area_ha |-> priority[k].area_ha,
              priority_type |-> priority_type(priority[k]),
              num_connections |-> priority[k].num_connections,
              degree_centrality |-> priority[k].degree_centrality]]]

\* ---- state of one PrairieConnectivityQGIS instance and of its caller ----
VARIABLES
    network,      \* self.network: None or the graph
    patches_df,   \* self.patches_df: None or [rows |-> the table's rows]
    crs,          \* self.crs: "None" or the layer's CRS
    result,       \* how the last call ended: returned metrics or raised
    printed,      \* the filter report the last call printed (lines 127-129)
    call,         \* the arguments of the last call
    runs,         \* calls of analyze_layer_connectivity made so far
    completed,    \* whether a call of analyze_layer_connectivity has returned
    project,      \* QgsProject.instance(): the map layers added so far
    created,      \* how the last create_qgis_layers call ended
    creates       \* calls of create_qgis_layers made so far

vars == <<network, patches_df, crs, result, printed, call, runs, completed,
          project, created, creates>>

None == [none |-> TRUE]

NoCRS == "None"

\* __init__ (lines 37-40)
Init ==
    /\ network = None
    /\ patches_df = None
    /\ crs = NoCRS
    /\ result = [status |-> "none", error |-> "", metrics |-> None]
    /\ printed = None
    /\ call = None
    /\ runs = 0
    /\ completed = FALSE
    /\ project = << >>
    /\ created = None
    /\ creates = 0

Raised(msg) == [status |-> "raised", error |-> msg, metrics |-> None]

Returned(m) == [status |-> "returned", error |-> "", metrics |-> m]

\* lines 116-137: the table is stored, then filtered; the graph is built and
\* the metrics returned only if a patch is left
ClassifyAndBuild(data, p) ==
    \E filtered \in {FilterPatches(
           Classify(data, p.min_primary_size_ha, p.min_secondary_size_ha),
           p.min_secondary_size_ha)} :
        /\ printed' =
               [filtered |-> Len(filtered),
                removed |-> Len(data) - Len(filtered),
                primary |-> Cardinality({k \in 1..Len(filtered) :
                    filtered[k].node_type = "primary"}),
                secondary |-> Cardinality({k \in 1..Len(filtered) :
                    filtered[k].node_type = "secondary"})]
        /\ IF Len(filtered) = 0
           THEN \* line 132
                /\ result' = Raised("No patches meet minimum size criteria")
                /\ patches_df' = [rows |-> filtered]
                /\ UNCHANGED network
           ELSE \E G \in {build_network(filtered,
                              p.max_distance_km * METERS_PER_KM)} :
                \E cm \in {calculate_metrics(G, filtered)} :
                    /\ network' = G
                    /\ patches_df' = [rows |-> cm.patches]
                    /\ result' = Returned(cm.metrics)

\* analyze_layer_connectivity (lines 42-137)
analyze_layer_connectivity(layer, p) ==
    /\ call' = [layer |-> layer, params |-> p]
    /\ runs' = runs + 1
    /\ IF ~layer.valid
       THEN \* line 58
            /\ result' = Raised("Invalid layer provided")
            /\ printed' = None
            /\ UNCHANGED <<network, patches_df, crs>>
       ELSE /\ crs' = layer.crs
            /\ \E data \in {features_data(layer)} :
                   IF data = << >>
                   THEN \* line 114
                        /\ result' = Raised("No valid features found in layer")
                        /\ printed' = None
                        /\ UNCHANGED <<network, patches_df>>
                   ELSE ClassifyAndBuild(data, p)
    /\ completed' = (completed \/ result'.status = "returned")
    /\ UNCHANGED <<project, created, creates>>

LayersRaised(msg) == [status |-> "raised", error |-> msg, layers |-> << >>]

LayersReturned(layers_created) ==
    [status |-> "returned", error |-> "", layers |-> layers_created]

\* line 233
MustRunFirst_Both == patches_df = None /\ network = None

MustRunFirst == patches_df = None \/ network = None

\* create_qgis_layers (lines 230-253) with the three layer builders: each
\* builder adds its layer to the project before the next one runs, so a
\* builder that raises leaves the earlier layers on the map
create_qgis_layers ==
    /\ creates' = creates + 1
    /\ UNCHANGED <<network, patches_df, crs, result, printed, call, runs,
                   completed>>
    /\ IF MustRunFirst
       THEN \* line 234
            /\ created' = LayersRaised("Must run analysis first")
            /\ UNCHANGED project
       ELSE \E patches_layer \in {create_patches_layer(patches_df.rows)} :
            IF network = None
            THEN \* line 330: None has no edges()
                 /\ created' = LayersRaised("AttributeError")
                 /\ project' = project \o <<patches_layer>>
            ELSE IF ~CentroidsFound(network, patches_df.rows)
            THEN \* lines 335-336: .iloc[0] on an empty selection
                 /\ created' = LayersRaised("IndexError")
                 /\ project' = project \o <<patches_layer>>
            ELSE \E connections_layer \in {create_connections_layer(network)} :
                 IF patches_df.rows = << >>
                 THEN \* line 374: the table left by line 125 when nothing
                      \* is retained has no degree_centrality column
                      /\ created' = LayersRaised("KeyError")
                      /\ project' =
                             project \o <<patches_layer, connections_layer>>
                 ELSE \E priority \in {priority_patches(patches_df.rows)} :
                      IF priority = << >>
                      THEN \* lines 380-382: returns None, nothing appended
                           /\ created' = LayersReturned(
                                  <<patches_layer, connections_layer>>)
                           /\ project' = project \o
                                  <<patches_layer, connections_layer>>
                      ELSE \E priority_layer \in
                               {create_priority_patches_layer(priority)} :
                           /\ created' = LayersReturned(
                                  <<patches_layer, connections_layer,
                                    priority_layer>>)
                           /\ project' = project \o
                                  <<patches_layer, connections_layer,
                                    priority_layer>>

\* one call on a newly constructed analyzer, as run_analysis (lines 631-638)
\* and quick_prairie_analysis (lines 719-725) make it
AnalyzeNew ==
    /\ runs = 0
    /\ \E layer \in Layers(MaxFeatures, {"EPSG:4326"}), p \in Params :
           analyze_layer_connectivity(layer, p)

\* a further call on the analyzer quick_prairie_analysis returned
AnalyzeAgain ==
    /\ runs < MaxRuns
    /\ \E layer \in Layers(MaxRunFeatures, CRSs), p \in DefaultParams :
           analyze_layer_connectivity(layer, p)

\* run_analysis line 641: the layers are created once the analysis returned
CreateLayers ==
    /\ result.status = "returned"
    /\ creates < MaxCreates
    /\ create_qgis_layers

\* a further call on the analyzer, on a layer in the project's CRS
AnalyzeInProject ==
    /\ runs < MaxRuns
    /\ \E layer \in Layers(MaxRunFeatures, {"EPSG:4326"}), p \in DefaultParams :
           analyze_layer_connectivity(layer, p)

\* a caller holding the analyzer creates layers whenever it likes
CreateLayersAnytime ==
    /\ creates < MaxCreates
    /\ create_qgis_layers

Next == AnalyzeNew \/ CreateLayers

Spec == Init /\ [][Next]_vars

NextRuns == AnalyzeAgain

SpecRuns == Init /\ [][NextRuns]_vars

NextLayers == AnalyzeInProject \/ CreateLayersAnytime

SpecLayers == Init /\ [][NextLayers]_vars

\* ==== properties ====
Called == call /= None

Succeeded == result.status = "returned"

\* the last call's layer features and parameters
InFeatures == call.layer.features

InParams == call.params

\* ids (enumerate positions) of the input features with non-empty geometry
NonEmptyIds == {k - 1 : k \in {j \in 1..Len(InFeatures) : ~InFeatures[j].empty}}

InArea(id) == InFeatures[id + 1].area

\* ids of the input features the size filter must keep
RetainedIds == {id \in NonEmptyIds : InArea(id) >= InParams.min_secondary_size_ha}

\* squared planar distance between the centroids of two input features
InDist2(a, b) ==
    LET dx == InFeatures[a + 1].x - InFeatures[b + 1].x
        dy == InFeatures[a + 1].y - InFeatures[b + 1].y
    IN dx * dx + dy * dy

InMaxDistance == InParams.max_distance_km * 1000

Rows == patches_df.rows

\* C1: after _build_network, two distinct retained patches are joined by an
\* edge if and only if 0 < distance <= maxDistance between their centroids;
\* every edge joins two distinct nodes (no self-loops).
C1_EdgeIffWithinDistance ==
    Succeeded =>
        /\ \A e \in network.edges :
               Cardinality(e) = 2 /\ e \subseteq NodesOf(network)
        /\ \A a \in NodesOf(network), b \in NodesOf(network) :
               a /= b =>
                   ({a, b} \in network.edges <=>
                        /\ InDist2(a, b) > 0
                        /\ InDist2(a, b) <= InMaxDistance * InMaxDistance)

\* a graph with an edge, with two coincident patches left unconnected
C1_Witness ==
    /\ Succeeded
    /\ network.edges /= {}
    /\ \E a \in NodesOf(network), b \in NodesOf(network) :
           a /= b /\ InDist2(a, b) = 0 /\ {a, b} \notin network.edges

\* C2: every retained patch is 'primary' iff area >= minPrimarySize and
\* 'secondary' iff minSecondarySize <= area < minPrimarySize (boundaries
\* included); none is 'too_small'. The graph's node attribute agrees.
C2_SizeTier ==
    (Called /\ patches_df /= None) =>
        \A k \in 1..Len(Rows) :
            LET r == Rows[k]
                a == InArea(r.patch_id)
            IN /\ r.node_type = "primary"
                      <=> a >= InParams.min_primary_size_ha
               /\ r.node_type = "secondary"
                      <=> (/\ a >= InParams.min_secondary_size_ha
                           /\ a < InParams.min_primary_size_ha)
               /\ r.node_type /= "too_small"
               /\ Succeeded =>
                      network.nodes[r.patch_id].node_type = r.node_type

\* a patch exactly at minPrimarySize and one exactly at minSecondarySize
C2_Witness ==
    /\ Succeeded
    /\ InParams.min_secondary_size_ha < InParams.min_primary_size_ha
    /\ \E k \in 1..Len(Rows) :
           /\ Rows[k].area_ha = InParams.min_primary_size_ha
           /\ Rows[k].node_type = "primary"
    /\ \E k \in 1..Len(Rows) :
           /\ Rows[k].area_ha = InParams.min_secondary_size_ha
           /\ Rows[k].node_type = "secondary"

\* C3: after a successful analysis the graph's nodes, and the patch table,
\* are exactly the input features with non-empty geometry and
\* area >= minSecondarySize; total_patches is their number and the removed
\* count printed is the number of non-empty features minus the retained.
C3_RetainedPatches ==
    Succeeded =>
        /\ NodesOf(network) = RetainedIds
        /\ {Rows[k].patch_id : k \in 1..Len(Rows)} = RetainedIds
        /\ Len(Rows) = Cardinality(RetainedIds)
        /\ result.metrics.total_patches = Cardinality(RetainedIds)
        /\ printed.filtered = Cardinality(RetainedIds)
        /\ printed.removed =
               Cardinality(NonEmptyIds) - Cardinality(RetainedIds)

\* three non-empty features, one below minSecondarySize: 2 patches, 1 removed
C3_Witness ==
    /\ Succeeded
    /\ Cardinality(NonEmptyIds) = 3
    /\ result.metrics.total_patches = 2
    /\ printed.removed = 1

\* C4: with a non-positive maxDistance, minPrimarySize or minSecondarySize
\* the call raises before any computation: no patch table and no graph is
\* built and no metrics are returned.
C4_NonPositiveParamsRaise ==
    (/\ Called
     /\ \/ InParams.max_distance_km <= 0
        \/ InParams.min_primary_size_ha <= 0
        \/ InParams.min_secondary_size_ha <= 0) =>
        /\ result.status = "raised"
        /\ patches_df = None
        /\ network = None

\* C5: the call raises when the layer has no feature, when every feature has
\* empty geometry and when no patch has area >= minSecondarySize; on every
\* other valid layer it returns metrics, also when one patch survives.
C5_RaisesIffNothingRetained ==
    Called =>
        /\ ~call.layer.valid =>
               result = Raised("Invalid layer provided")
        /\ (call.layer.valid /\ NonEmptyIds = {}) =>
               result = Raised("No valid features found in layer")
        /\ (call.layer.valid /\ NonEmptyIds /= {} /\ RetainedIds = {}) =>
               result = Raised("No patches meet minimum size criteria")
        /\ (call.layer.valid /\ RetainedIds /= {}) =>
               /\ result.status = "returned"
               /\ result.metrics /= None

\* exactly one patch survives and metrics are returned
C5_Witness ==
    /\ Succeeded
    /\ Cardinality(RetainedIds) = 1
    /\ Cardinality(NonEmptyIds) > 1

\* C6: a call that raises leaves the analyzer's stored patch table, network
\* and CRS as they were before the call, in any sequence of calls.
C6_FailedRunChangesNothing ==
    [][result'.status = "raised" =>
           /\ patches_df' = patches_df
           /\ network' = network
           /\ crs' = crs]_vars

AllPairsConnected ==
    \A a \in NodesOf(network), b \in NodesOf(network) :
        a /= b => {a, b} \in network.edges

\* C7: network_density = edges / (n(n-1)/2) lies in [0,1] and is 1 exactly
\* when every pair of distinct retained patches is connected, for every
\* n >= 1.
C7_DensityOneIffAllPairs ==
    Succeeded =>
        LET d == result.metrics.network_density
            n == Cardinality(NodesOf(network))
            m == Cardinality(network.edges)
        IN /\ d[1] * n * (n - 1) = 2 * m * d[2]
           /\ FracLeq(Zero, d) /\ FracLeq(d, One)
           /\ d = One <=> AllPairsConnected

\* C7 as amended: the same for n >= 2; with a single patch the density is 0.
C7_DensityAmended ==
    Succeeded =>
        LET d == result.metrics.network_density
            n == Cardinality(NodesOf(network))
            m == Cardinality(network.edges)
        IN /\ FracLeq(Zero, d) /\ FracLeq(d, One)
           /\ n >= 2 =>
                  /\ d[1] * n * (n - 1) = 2 * m * d[2]
                  /\ d = One <=> AllPairsConnected
           /\ n <= 1 => d = Zero

\* three patches, all pairs connected, density 1
C7_Witness ==
    /\ Succeeded
    /\ Cardinality(NodesOf(network)) = 3
    /\ AllPairsConnected
    /\ result.metrics.network_density = One

\* C8: with exactly one retained patch the metrics are returned and every
\* connectivity value is zero: density, total_connections, and the patch's
\* degree_centrality, betweenness_centrality and num_connections.
C8_SinglePatchAllZero ==
    (Called /\ call.layer.valid /\ Cardinality(RetainedIds) = 1) =>
        /\ Succeeded
        /\ result.metrics.network_density = Zero
        /\ result.metrics.total_connections = 0
        /\ Len(Rows) = 1
        /\ Rows[1].degree_centrality = Zero
        /\ Rows[1].betweenness_centrality = Zero
        /\ Rows[1].num_connections = 0

\* C9: every retained patch has degree_centrality = degree / (totalNodes - 1)
\* (0 when totalNodes <= 1), within [0,1], and 0 when it has no edges.
C9_DegreeCentrality ==
    Succeeded =>
        \A k \in 1..Len(Rows) :
            LET r == Rows[k]
                n == result.metrics.total_patches
                deg == Cardinality({e \in network.edges : r.patch_id \in e})
            IN /\ r.degree_centrality =
                      IF n <= 1 THEN Zero ELSE Frac(deg, n - 1)
               /\ FracLeq(Zero, r.degree_centrality)
               /\ FracLeq(r.degree_centrality, One)
               /\ r.num_connections = 0 => r.degree_centrality = Zero

\* C is one class of undirected reachability: no edge leaves it and no
\* proper non-empty part of it is closed under its edges
IsReachabilityClass(C) ==
    /\ C /= {}
    /\ C \subseteq NodesOf(network)
    /\ \A e \in network.edges : e \cap C /= {} => e \subseteq C
    /\ \A S \in SUBSET C :
           (S /= {} /\ S /= C) =>
               \E e \in network.edges : e \cap S /= {} /\ e \cap (C \ S) /= {}

\* C10: the connected components partition the nodes by undirected
\* reachability; their sizes sum to total_patches, num_components is their
\* number, largest_component_size the largest size, and isolated_patches
\* the number of size-1 components, which is the number of patches with
\* num_connections = 0.
C10_ComponentsPartition ==
    Succeeded =>
        LET comps == connected_components(network)
            m == result.metrics
        IN /\ \A k \in 1..Len(comps) : IsReachabilityClass(comps[k])
           /\ \A j \in 1..Len(comps), k \in 1..Len(comps) :
                  j /= k => comps[j] \cap comps[k] = {}
           /\ UNION Range(comps) = NodesOf(network)
           /\ SumSeq([k \in 1..Len(comps) |-> Cardinality(comps[k])])
                  = m.total_patches
           /\ m.num_components = Len(comps)
           /\ \E k \in 1..Len(comps) :
                  Cardinality(comps[k]) = m.largest_component_size
           /\ \A k \in 1..Len(comps) :
                  Cardinality(comps[k]) <= m.largest_component_size
           /\ m.isolated_patches =
                  Cardinality({k \in 1..Len(comps) : Cardinality(comps[k]) = 1})
           /\ m.isolated_patches =
                  Cardinality({k \in 1..Len(Rows) : Rows[k].num_connections = 0})

\* three patches: a connected pair and an isolated patch beyond maxDistance
C10_Witness ==
    /\ Succeeded
    /\ result.metrics.total_patches = 3
    /\ result.metrics.num_components = 2
    /\ result.metrics.largest_component_size = 2
    /\ result.metrics.isolated_patches = 1
    /\ InParams.max_distance_km > 0

\* ---- priority classification, as the specification words it ----
LayersCreated == created /= None /\ created.status = "returned"

\* the k-th smallest (k from 0) value of a column, by rank
OrderStatistic(column, k) ==
    CHOOSE v \in Range(column) :
        /\ Cardinality({j \in 1..Len(column) : FracLess(column[j], v)}) <= k
        /\ k < Cardinality({j \in 1..Len(column) : FracLeq(column[j], v)})

\* v lies strictly above the pct-th percentile of the column: the percentile
\* sits at rank pct * (n - 1) / 100, between the two nearest ranked values
AbovePercentile(v, column, pct) ==
    LET pos == pct * (Len(column) - 1)
        lo == OrderStatistic(column, pos \div 100)
        hi == IF pos % 100 = 0 THEN lo
              ELSE OrderStatistic(column, pos \div 100 + 1)
    IN FracLess(FracMul(FracSub(hi, lo), <<pos % 100, 1>>),
                FracMul(FracSub(v, lo), <<100, 1>>))

CentralityColumn == [k \in 1..Len(Rows) |-> Rows[k].degree_centrality]

AreaColumn == [k \in 1..Len(Rows) |-> <<Rows[k].area_ha, 1>>]

HubRule(k) ==
    /\ AbovePercentile(Rows[k].degree_centrality, CentralityColumn, 80)
    /\ AbovePercentile(<<Rows[k].area_ha, 1>>, AreaColumn, 60)

LargeIsolatedRule(k) ==
    /\ Rows[k].num_connections = 0
    /\ AbovePercentile(<<Rows[k].area_ha, 1>>, AreaColumn, 70)

Hubs == {Rows[k].patch_id : k \in {j \in 1..Len(Rows) : HubRule(j)}}

LargeIsolateds ==
    {Rows[k].patch_id : k \in {j \in 1..Len(Rows) : LargeIsolatedRule(j)}}

\* the features of the priority layer the last create_qgis_layers call made
PriorityFeatures ==
    IF LayersCreated /\ Len(created.layers) = 3
    THEN Range(created.layers[3].features) ELSE {}

PriorityIds == {f.patch_id : f \in PriorityFeatures}

\* C11: the priority patches are exactly the retained patches that satisfy
\* the Hub rule or the LargeIsolated rule, percentiles taken over all
\* retained patches; when none qualifies no priority layer is made and no
\* error is raised; when exactly one patch is LargeIsolated and none is a Hub
\* exactly one priority patch, labelled Large Isolated, is returned.
C11_PrioritySet ==
    (created /= None /\ Succeeded) =>
        /\ created.status = "returned"
        /\ PriorityIds = Hubs \cup LargeIsolateds
        /\ Cardinality(PriorityFeatures) = Cardinality(PriorityIds)
        /\ (Hubs \cup LargeIsolateds = {} => Len(created.layers) = 2)
        /\ (Cardinality(LargeIsolateds) = 1 /\ Hubs = {} =>
                /\ Cardinality(PriorityFeatures) = 1
                /\ \A f \in PriorityFeatures :
                       f.priority_type = "Large Isolated")

\* exactly one large isolated patch among others, no hub, layers created
C11_Witness ==
    /\ LayersCreated
    /\ Succeeded
    /\ Len(Rows) >= 2
    /\ Cardinality(LargeIsolateds) = 1
    /\ Hubs = {}
    /\ Cardinality(PriorityFeatures) = 1

\* C12: every priority patch carries exactly one label; it is labelled Hub
\* if and only if it satisfies the Hub rule, and Large Isolated if and only
\* if it satisfies the LargeIsolated rule and not the Hub rule.
C12_OneLabelHubFirst ==
    (LayersCreated /\ Succeeded) =>
        \A f \in PriorityFeatures :
            /\ f.priority_type \in {"Hub", "Large Isolated"}
            /\ (f.priority_type = "Hub" <=> f.patch_id \in Hubs)
            /\ (f.priority_type = "Large Isolated" <=>
                    f.patch_id \in LargeIsolateds \ Hubs)

\* a priority layer holding a patch labelled Hub
C12_Witness ==
    /\ LayersCreated
    /\ Succeeded
    /\ \E f \in PriorityFeatures :
           f.priority_type = "Hub" /\ f.patch_id \in Hubs

\* the table, the graph and the metrics are those of the last call's input
RunOfInput ==
    /\ {Rows[k].patch_id : k \in 1..Len(Rows)} = RetainedIds
    /\ Len(Rows) = Cardinality(RetainedIds)
    /\ NodesOf(network) = RetainedIds
    /\ \A id \in NodesOf(network) :
           id \in RetainedIds => network.nodes[id].area_ha = InArea(id)
    /\ \A a \in RetainedIds, b \in RetainedIds :
           {a, b} \in network.edges <=>
               /\ InDist2(a, b) > 0
               /\ InDist2(a, b) <= InMaxDistance * InMaxDistance
    /\ \A e \in network.edges : e \subseteq RetainedIds
    /\ result.metrics.total_patches = Cardinality(RetainedIds)
    /\ result.metrics.total_connections = Cardinality(network.edges)

\* C13: the result of a run depends only on its input and parameters, and
\* after any sequence of runs on one analyzer the graph holds no node or edge
\* left over from an earlier run: its nodes are the patches of the table the
\* analyzer holds, and its edges join patches of that table.
C13_NoLeftoverGraph ==
    (Called /\ network /= None /\ patches_df /= None) =>
        /\ NodesOf(network) = {Rows[k].patch_id : k \in 1..Len(Rows)}
        /\ \A e \in network.edges :
               e \subseteq {Rows[k].patch_id : k \in 1..Len(Rows)}

\* the part of C13 about runs that return: whatever ran before on the
\* analyzer, a run that returns leaves the table, the graph and the counts of
\* its own input, and a run repeated with the same arguments ends as the run
\* before it did
ReturnedRunDependsOnInputOnly ==
    [][runs' = runs + 1 =>
           /\ result'.status = "returned" => RunOfInput'
           /\ call' = call =>
                  /\ result' = result
                  /\ patches_df' = patches_df
                  /\ network' = network]_vars

NumConnections == [k \in 1..Len(Rows) |-> Rows[k].num_connections]

IsShare(f) == f[2] > 0 /\ FracLeq(Zero, f) /\ FracLeq(f, One)

\* C14: after a successful run every retained patch's num_connections is the
\* number of edges at its node, so the column sums to twice
\* total_connections; max_connections is the column's maximum and
\* avg_connections_per_patch its mean; degree_centrality and
\* betweenness_centrality hold a value for every retained patch.
C14_PerPatchColumns ==
    Succeeded =>
        /\ \A k \in 1..Len(Rows) :
               /\ Rows[k].num_connections =
                      Cardinality({b \in NodesOf(network) :
                                       {Rows[k].patch_id, b} \in network.edges
                                       /\ b /= Rows[k].patch_id})
               /\ {"degree_centrality", "betweenness_centrality",
                   "num_connections"} \subseteq DOMAIN Rows[k]
               /\ IsShare(Rows[k].degree_centrality)
               /\ IsShare(Rows[k].betweenness_centrality)
        /\ SumSeq(NumConnections) = 2 * result.metrics.total_connections
        /\ result.metrics.max_connections \in Range(NumConnections)
        /\ \A k \in 1..Len(Rows) :
               Rows[k].num_connections <= result.metrics.max_connections
        /\ result.metrics.avg_connections_per_patch[1] * Len(Rows) =
               SumSeq(NumConnections)
                   * result.metrics.avg_connections_per_patch[2]

\* a graph whose patches differ in their number of connections
C14_Witness ==
    /\ Succeeded
    /\ \E k \in 1..Len(Rows) :
           /\ Rows[k].num_connections > 0
           /\ Rows[k].num_connections < result.metrics.max_connections

\* C15: in every graph the pipeline produces no patch passes both the Hub
\* test and the LargeIsolated test of lines 374-377: every patch passing the
\* Hub test has num_connections > 0, so the label chosen by testing
\* num_connections == 0 first is Hub for every hub and Large Isolated for
\* every patch that is only large and isolated.
C15_RulesExclusive ==
    Succeeded =>
        \A k \in 1..Len(Rows) :
            /\ ~(is_hub(Rows[k], Rows) /\ is_large_isolated(Rows[k], Rows))
            /\ is_hub(Rows[k], Rows) =>
                   /\ Rows[k].num_connections > 0
                   /\ priority_type(Rows[k]) = "Hub"
            /\ (is_large_isolated(Rows[k], Rows) /\ ~is_hub(Rows[k], Rows)) =>
                   priority_type(Rows[k]) = "Large Isolated"

\* a graph of three or more patches, one of them a hub with two connections
C15_Witness ==
    /\ Succeeded
    /\ Len(Rows) >= 3
    /\ \E k \in 1..Len(Rows) :
           /\ is_hub(Rows[k], Rows)
           /\ Rows[k].num_connections >= 2

\* C16: on an analyzer on which no call of analyze_layer_connectivity has
\* returned (never called, or every call raised), create_qgis_layers raises
\* 'Must run analysis first' and adds no layer; the project holds layers of
\* the analyzer only once a call of analyze_layer_connectivity has returned.
C16_NoLayersBeforeAnalysis ==
    /\ (created /= None /\ ~completed) =>
           /\ created.status = "raised"
           /\ created.error = "Must run analysis first"
           /\ created.layers = << >>
           /\ project = << >>
    /\ project /= << >> => completed

\* create_qgis_layers was called after a run that raised at line 132, which
\* left a table but no graph
C16_Witness ==
    /\ created /= None
    /\ ~completed
    /\ runs >= 1
    /\ patches_df /= None
    /\ created.status = "raised"

====
